---------------------------- MODULE Spec2Model ----------------------------
(***************************************************************************)
(* A model of testseat.py, the exam seating randomizer: the loader         *)
(* (load_students), the assigner (assign_seats), the grid renderer         *)
(* (format_grid) and the entry point (main).                               *)
(*                                                                         *)
(* Strings are sequences of one-character strings, so that strip, split,   *)
(* join and the f-string formatting are computed character by character.   *)
(* A Seat is a record [row, col]; an assignment is a sequence of           *)
(* <<seat, student>> pairs.  Python list objects live in `heap`, indexed   *)
(* by reference, so that copying a list and mutating it in place are       *)
(* different things.                                                       *)
(***************************************************************************)
EXTENDS Integers, Sequences, FiniteSets, TLC

VARIABLES
    pc,        \* position of the running call / of main
    heap,      \* list objects: reference -> contents; reference 1 is the caller's students list
    rows,      \* argument rows
    cols,      \* argument cols
    blocked,   \* argument blocked, a set of <<row, col>> pairs
    seed,      \* argument seed: <<>> is None, <<n>> the integer n
    result,    \* outcome of assign_seats: [status, pairs]
    result2,   \* outcome of a second call with the same arguments
    text,      \* contents of the students file
    fileState, \* "absent", "ok", "denied" or "undecodable"
    rendered,  \* string returned by format_grid
    stdout,    \* what was printed, one entry per print call
    uncaught   \* the exception that ended main, "none" when there is none

vars == <<pc, heap, rows, cols, blocked, seed, result, result2, text,
          fileState, rendered, stdout, uncaught>>

---------------------------------------------------------------------------
(* Bounds of the model. *)

MaxRows == 2
MaxCols == 2
MaxStudents == 3
MaxSeed == 1
MaxTextLen == 5

---------------------------------------------------------------------------
(* Python values. *)

NoSeed == <<>>

Seat(r, c) == [row |-> r, col |-> c]

NotCalled == [status |-> "none", pairs |-> <<>>]

Returned(pairs) == [status |-> "ok", pairs |-> pairs]

Raised(kind) == [status |-> kind, pairs |-> <<>>]

Min(a, b) == IF a < b THEN a ELSE b

---------------------------------------------------------------------------
(* random.Random(seed) and Random.shuffle.  The generator is a 16-bit      *)
(* linear congruential generator standing for the Mersenne Twister: what   *)
(* matters here is that the stream is a function of the seed alone.        *)

\* faulty variant: random.Random() built without the seed
RngSeedOf_ignored(sd, entropy) == entropy

\* random.Random(seed): an integer seed fixes the state, None draws it from the system
RngSeedOf(sd, entropy) == IF sd = NoSeed THEN entropy ELSE sd[1]

RngNext(s) == (s * 25173 + 13849) % 65536

\* Random._randbelow(n) on the state reached by one step
RandBelow(n, s) == (s \div 16) % n

\* faulty variant: x[i] = x[j] alone
Swap_half(xs, i, j) == [xs EXCEPT ![i] = xs[j]]

\* x[i], x[j] = x[j], x[i]
Swap(xs, i, j) == [xs EXCEPT ![i] = xs[j], ![j] = xs[i]]

RECURSIVE ShuffleFrom(_, _, _)
\* for i in reversed(range(1, len(x))): j = randbelow(i + 1); swap  (i is 1-based here)
ShuffleFrom(xs, i, s) ==
    IF i < 2 \/ xs = <<>> THEN xs   \* nothing left to swap
    ELSE LET s1 == RngNext(s)
             j  == RandBelow(i, s1) + 1
         IN  ShuffleFrom(Swap(xs, i, j), i - 1, s1)

shuffle(xs, s) == ShuffleFrom(xs, Len(xs), s)

---------------------------------------------------------------------------
(* assign_seats *)

blocked_set(b) == {Seat(p[1], p[2]) : p \in b}

RowSeats(r, nc) == [c \in 1..nc |-> Seat(r, c)]

RECURSIVE SeatsUpToRow(_, _)
SeatsUpToRow(r, nc) ==
    IF r < 1 THEN <<>> ELSE SeatsUpToRow(r - 1, nc) \o RowSeats(r, nc)

\* faulty variant: the two loops of the comprehension exchanged
all_seats_colMajor(nr, nc) ==
    [k \in 1..(nr * nc) |-> Seat(((k - 1) % nr) + 1, ((k - 1) \div nr) + 1)]

\* [Seat(r, c) for r in range(1, rows + 1) for c in range(1, cols + 1)]
all_seats(nr, nc) == SeatsUpToRow(nr, nc)

\* faulty variant: blocked seats not removed
available_seats_unfiltered(nr, nc, b) == all_seats(nr, nc)

\* [s for s in all_seats if s not in blocked_set]
available_seats(nr, nc, b) ==
    SelectSeq(all_seats(nr, nc), LAMBDA s : s \notin blocked_set(b))

\* faulty variant: >= in place of >
CapacityExceeded_offByOne(n, m) == n >= m

\* len(students) > len(available_seats)
CapacityExceeded(n, m) == n > m

\* list(zip(a, b)): as long as the shorter of the two
Zip(a, b) == [i \in 1..Min(Len(a), Len(b)) |-> <<a[i], b[i]>>]

\* faulty variant: shuffled = students, the same list object
ListCopy_alias(src, fresh) == src

\* list(students): a new list object
ListCopy(src, fresh) == fresh

\* The heap after the body of assign_seats ran on the list at `src`, its
\* copy going to `fresh`; unchanged when the capacity error is raised.
HeapAfterAssign(h, src, fresh, nr, nc, b, rngSeed) ==
    IF CapacityExceeded(Len(h[src]), Len(available_seats(nr, nc, b)))
    THEN h
    ELSE LET shuffled == ListCopy(src, fresh)
             h1 == [h EXCEPT ![shuffled] = h[src]]
         IN  [h1 EXCEPT ![shuffled] = shuffle(h1[shuffled], rngSeed)]

\* What assign_seats returns or raises.
AssignOutcome(h, src, fresh, nr, nc, b, rngSeed) ==
    LET available == available_seats(nr, nc, b)
    IN  IF CapacityExceeded(Len(h[src]), Len(available))
        THEN Raised("ValueError")
        ELSE Returned(Zip(available,
                 HeapAfterAssign(h, src, fresh, nr, nc, b, rngSeed)[ListCopy(src, fresh)]))


---------------------------------------------------------------------------
(* Calls of assign_seats on enumerated arguments. *)

Names == {<<"A">>, <<"B">>, <<"C">>}

StudentLists == UNION {[1..n -> Names] : n \in 0..MaxStudents}

\* candidate blocked coordinates, in and out of the grid
BlockedCandidates == {<<1, 1>>, <<1, 2>>, <<2, 1>>, <<3, 3>>}

Seeds == {NoSeed} \cup {<<n>> : n \in 0..MaxSeed}

\* what the system source may seed an unseeded generator with
Entropy == 0..MaxSeed

Refs == 1..3

EmptyHeap == [r \in Refs |-> <<>>]

InitAssign ==
    /\ pc = "ready"
    /\ \E st \in StudentLists : heap = [EmptyHeap EXCEPT ![1] = st]
    /\ rows \in 1..MaxRows
    /\ cols \in 1..MaxCols
    /\ blocked \in SUBSET BlockedCandidates
    /\ seed \in Seeds
    /\ result = NotCalled
    /\ result2 = NotCalled
    /\ text = <<>>
    /\ fileState = "absent"
    /\ rendered = <<>>
    /\ stdout = <<>>
    /\ uncaught = "none"

\* assign_seats(students, rows, cols, blocked, seed)
assign_seats ==
    /\ pc = "ready"
    /\ \E e \in Entropy :
          LET s == RngSeedOf(seed, e)
          IN  /\ result' = AssignOutcome(heap, 1, 2, rows, cols, blocked, s)
              /\ heap' = HeapAfterAssign(heap, 1, 2, rows, cols, blocked, s)
    /\ pc' = "called"
    /\ UNCHANGED <<rows, cols, blocked, seed, result2, text, fileState, rendered, stdout, uncaught>>

\* the same call once more, on the same arguments
assign_seats_again ==
    /\ pc = "called"
    /\ \E e \in Entropy :
          LET s == RngSeedOf(seed, e)
          IN  /\ result2' = AssignOutcome(heap, 1, 3, rows, cols, blocked, s)
              /\ heap' = HeapAfterAssign(heap, 1, 3, rows, cols, blocked, s)
    /\ pc' = "done"
    /\ UNCHANGED <<rows, cols, blocked, seed, result, text, fileState, rendered, stdout, uncaught>>

NextAssign == assign_seats \/ assign_seats_again

Spec == InitAssign /\ [][NextAssign]_vars

---------------------------------------------------------------------------
(* Properties of assign_seats, stated without the code's own enumeration   *)
(* of the seats.                                                           *)

GridSeats == {Seat(r, c) : r \in 1..rows, c \in 1..cols}

UnblockedSeats == {s \in GridSeats : <<s.row, s.col>> \notin blocked}

\* row-major order on seats
Before(s, t) == s.row < t.row \/ (s.row = t.row /\ s.col < t.col)

SeatsOf(pairs) == [i \in 1..Len(pairs) |-> pairs[i][1]]

StudentsOf(pairs) == [i \in 1..Len(pairs) |-> pairs[i][2]]

Occurrences(x, xs) == Cardinality({i \in 1..Len(xs) : xs[i] = x})

SameMultiset(xs, ys) ==
    /\ Len(xs) = Len(ys)
    /\ \A i \in 1..Len(xs) : Occurrences(xs[i], xs) = Occurrences(xs[i], ys)

\* C1: a call with no more students than available seats returns exactly
\* len(students) pairs, no seat twice, and the students of the pairs are a
\* permutation (with multiplicity) of the input list.
C1_PairsAreAPermutationOnDistinctSeats ==
    (pc # "ready" /\ Len(heap[1]) <= Cardinality(UnblockedSeats)) =>
        /\ result.status = "ok"
        /\ Len(result.pairs) = Len(heap[1])
        /\ \A i, j \in 1..Len(result.pairs) :
              i # j => result.pairs[i][1] # result.pairs[j][1]
        /\ SameMultiset(StudentsOf(result.pairs), heap[1])

C1_Witness ==
    /\ pc = "called"
    /\ result.status = "ok"
    /\ Len(result.pairs) = 3
    /\ Occurrences(<<"A">>, heap[1]) = 2
    /\ StudentsOf(result.pairs) # heap[1]
    /\ blocked # {}

\* C2: no returned seat is blocked, and every returned seat lies in the grid.
C2_NoBlockedSeatAndInsideGrid ==
    result.status = "ok" =>
        \A i \in 1..Len(result.pairs) :
            LET s == result.pairs[i][1]
            IN  /\ <<s.row, s.col>> \notin blocked
                /\ 1 <= s.row /\ s.row <= rows
                /\ 1 <= s.col /\ s.col <= cols

C2_Witness ==
    /\ result.status = "ok"
    /\ <<1, 1>> \in blocked
    /\ <<3, 3>> \in blocked
    /\ Len(result.pairs) = 2

\* C3: the capacity error is raised exactly when there are more students than
\* available seats, and then nothing is returned; with as many students as
\* available seats the call succeeds and every available seat is assigned.
C3_CapacityErrorExactlyWhenTooMany ==
    pc # "ready" =>
        /\ result.status \in {"ok", "ValueError"}
        /\ result.status = "ValueError" <=> Len(heap[1]) > Cardinality(UnblockedSeats)
        /\ result.status = "ValueError" => result.pairs = <<>>
        /\ Len(heap[1]) = Cardinality(UnblockedSeats) =>
              /\ result.status = "ok"
              /\ UnblockedSeats = {result.pairs[i][1] : i \in 1..Len(result.pairs)}

C3_Witness ==
    /\ pc = "called"
    /\ blocked # {}
    /\ Cardinality(UnblockedSeats) = 2
    /\ Len(heap[1]) = Cardinality(UnblockedSeats) + 1
    /\ result.status = "ValueError"

\* C4: the seat of the i-th pair is the i-th available seat in row-major
\* order (so the assigned seats are a prefix of the available ones), and with
\* no seat of the grid blocked it is (k div cols + 1, k mod cols + 1), k = i - 1.
C4_SeatsAreRowMajorPrefix ==
    result.status = "ok" =>
        \A i \in 1..Len(result.pairs) :
            LET s == result.pairs[i][1]
            IN  /\ s \in UnblockedSeats
                /\ Cardinality({t \in UnblockedSeats : Before(t, s)}) = i - 1
                /\ UnblockedSeats = GridSeats =>
                      s = Seat(((i - 1) \div cols) + 1, ((i - 1) % cols) + 1)

C4_Witness ==
    /\ result.status = "ok"
    /\ rows = 2 /\ cols = 2
    /\ blocked = {<<1, 2>>}
    /\ Len(result.pairs) = 2
    /\ result.pairs[2][1] = Seat(2, 1)

\* C5: two calls with the same integer seed and the same other arguments
\* return the same sequence of pairs.
C5_SameSeedSameResult ==
    (pc = "done" /\ seed # NoSeed) => result2 = result

C5_Witness ==
    /\ pc = "done"
    /\ seed # NoSeed
    /\ result.status = "ok"
    /\ StudentsOf(result.pairs) # heap[1]
    /\ result2 = result

\* C9: no step of assign_seats, returning or raising, changes the caller's
\* students list.
C9_CallerListUnchanged == [][heap'[1] = heap[1]]_vars

C9_Witness ==
    /\ pc = "called"
    /\ result.status = "ok"
    /\ StudentsOf(result.pairs) # heap[1]

---------------------------------------------------------------------------
(* load_students *)

\* what str.strip() and str.split() treat as whitespace (of the characters modelled)
Whitespace == {" ", "\t", "\n", "\f"}

\* where str.splitlines() ends a line: the line feed, and also the form feed
\* (as it does at \v, \x1c, \x1d, \x1e, \x85, U+2028 and U+2029)
LineBoundaries == {"\n", "\f"}

RECURSIVE SplitLinesFrom(_, _)
\* text.splitlines() from position i on: a line runs up to the next line
\* boundary or to the end of the text; no empty line after a final boundary
SplitLinesFrom(t, i) ==
    IF i > Len(t) THEN <<>>
    ELSE LET ends == {e \in i..Len(t) : t[e] \in LineBoundaries}
             e == IF ends = {} THEN Len(t) + 1
                  ELSE CHOOSE x \in ends : \A y \in ends : x <= y
         IN  <<SubSeq(t, i, e - 1)>> \o SplitLinesFrom(t, e + 1)

SplitLines(t) == SplitLinesFrom(t, 1)

RECURSIVE LStrip(_)
LStrip(l) == IF l # <<>> /\ Head(l) \in Whitespace THEN LStrip(Tail(l)) ELSE l

RECURSIVE RStrip(_)
RStrip(l) ==
    IF l # <<>> /\ l[Len(l)] \in Whitespace THEN RStrip(SubSeq(l, 1, Len(l) - 1)) ELSE l

\* line.strip()
Strip(l) == RStrip(LStrip(l))

RECURSIVE SplitFrom(_, _, _)
\* line.split(): the maximal runs of characters that are not whitespace
SplitFrom(l, i, cur) ==
    IF i > Len(l) THEN (IF cur = <<>> THEN <<>> ELSE <<cur>>)
    ELSE IF l[i] \in Whitespace
         THEN (IF cur = <<>> THEN <<>> ELSE <<cur>>) \o SplitFrom(l, i + 1, <<>>)
         ELSE SplitFrom(l, i + 1, Append(cur, l[i]))

Split(l) == SplitFrom(l, 1, <<>>)

RECURSIVE Join(_, _)
\* sep.join(parts)
Join(sep, parts) ==
    IF parts = <<>> THEN <<>>
    ELSE IF Len(parts) = 1 THEN parts[1]
    ELSE parts[1] \o sep \o Join(sep, Tail(parts))

\* the body of the loop for a stripped, non-empty line
StudentOfLine(line) ==
    LET parts == Split(line)
    IN  IF Len(parts) >= 2
        THEN parts[1] \o <<" ">> \o Join(<<>>, Tail(parts))
        ELSE parts[1]

\* load_students(path), given the decoded text of the file: every line is
\* stripped, the empty ones are skipped, the others appended in order
LoadStudentsOf(t) ==
    LET lines == SplitLines(t)
        stripped == [i \in 1..Len(lines) |-> Strip(lines[i])]
        kept == SelectSeq(stripped, LAMBDA line : line # <<>>)
    IN  [i \in 1..Len(kept) |-> StudentOfLine(kept[i])]

---------------------------------------------------------------------------
(* Calls of load_students on enumerated files. *)

FileChars == {"a", "b", " ", "\n", "\f"}

ExampleText ==
    <<"0", "0", "7", " ", " ", " ", "J", "a", "n", "e", " ", " ", " ", "D", "o", "e", "\n",
      "\n", " ", "\t", "\n", "S", "o", "l", "o">>

Texts == UNION {[1..n -> FileChars] : n \in 0..MaxTextLen} \cup {ExampleText}

InitLoad ==
    /\ pc = "ready"
    /\ text \in Texts
    /\ fileState = "ok"
    /\ heap = EmptyHeap
    /\ rows = 1
    /\ cols = 1
    /\ blocked = {}
    /\ seed = NoSeed
    /\ result = NotCalled
    /\ result2 = NotCalled
    /\ rendered = <<>>
    /\ stdout = <<>>
    /\ uncaught = "none"

\* students = load_students(path)
load_students ==
    /\ pc = "ready"
    /\ heap' = [heap EXCEPT ![1] = LoadStudentsOf(text)]
    /\ pc' = "loaded"
    /\ UNCHANGED <<rows, cols, blocked, seed, result, result2, text, fileState,
                   rendered, stdout, uncaught>>

NextLoad == load_students

SpecLoad == InitLoad /\ [][NextLoad]_vars

---------------------------------------------------------------------------
(* Properties of load_students: the lines of the file, the                  *)
(* tokens of a line and the entry a line stands for, by positions.          *)

\* the positions after which a line of `t` ends, given the line terminators
LineEnds(t, terminators) == {i \in 1..Len(t) : t[i] \in terminators}

\* the line of `t` that starts at position i (i - 1 is 0 or a line end)
LineAt(t, i, terminators) ==
    LET ends == {e \in LineEnds(t, terminators) : e >= i} \cup {Len(t) + 1}
        e == CHOOSE x \in ends : \A y \in ends : x <= y
    IN  SubSeq(t, i, e - 1)

IsBlank(l) == \A i \in 1..Len(l) : l[i] \in Whitespace

\* the entry expected for a non-blank line: its first token, and when
\* more tokens follow, one space and every later non-whitespace character
ClaimedEntry(l) ==
    LET first == CHOOSE i \in 1..Len(l) :
                     l[i] \notin Whitespace /\ \A j \in 1..(i - 1) : l[j] \in Whitespace
        last  == CHOOSE i \in first..Len(l) :
                     /\ \A j \in first..i : l[j] \notin Whitespace
                     /\ i = Len(l) \/ l[i + 1] \in Whitespace
        rest  == SelectSeq(SubSeq(l, last + 1, Len(l)), LAMBDA ch : ch \notin Whitespace)
    IN  IF rest = <<>> THEN SubSeq(l, first, last)
        ELSE SubSeq(l, first, last) \o <<" ">> \o rest

RECURSIVE ClaimedRosterFrom(_, _, _)
ClaimedRosterFrom(t, i, terminators) ==
    IF i > Len(t) THEN <<>>
    ELSE LET l == LineAt(t, i, terminators)
         IN  (IF IsBlank(l) THEN <<>> ELSE <<ClaimedEntry(l)>>)
                 \o ClaimedRosterFrom(t, i + Len(l) + 1, terminators)

ClaimedRoster(t, terminators) == ClaimedRosterFrom(t, 1, terminators)

\* C6: load_students returns, in order, one entry per non-blank line of the
\* file (a line ends at a line feed): the first token, then one space and the
\* remaining tokens run together when there are any.
C6_OneEntryPerFileLine ==
    pc = "loaded" => heap[1] = ClaimedRoster(text, {"\n"})

\* The same, with the lines of the file taken as str.splitlines() cuts them.
LoadedPerSplitlinesLine ==
    pc = "loaded" => heap[1] = ClaimedRoster(text, LineBoundaries)

LoadedExample ==
    /\ pc = "loaded"
    /\ text = ExampleText
    /\ heap[1] = << <<"0", "0", "7", " ", "J", "a", "n", "e", "D", "o", "e">>,
                    <<"S", "o", "l", "o">> >>

---------------------------------------------------------------------------
(* Seat.label and format_grid *)

Digits == <<"0", "1", "2", "3", "4", "5", "6", "7", "8", "9">>

RECURSIVE Decimal(_)
\* str(n) for n >= 0
Decimal(n) ==
    IF n < 10 THEN <<Digits[n + 1]>> ELSE Decimal(n \div 10) \o <<Digits[(n % 10) + 1]>>

\* f"R{row}C{col}"
label(r, c) == <<"R">> \o Decimal(r) \o <<"C">> \o Decimal(c)

\* grid = [["" for _ in range(cols)] for _ in range(rows)]
EmptyGrid(nr, nc) == [r \in 1..nr |-> [c \in 1..nc |-> <<>>]]

RECURSIVE FillGrid(_, _, _)
\* for seat, student in assignments: grid[seat.row - 1][seat.col - 1] = student
\* (the grid after the first i pairs were stored into `grid`)
FillGrid(grid, pairs, i) ==
    IF i = 0 THEN grid
    ELSE [FillGrid(grid, pairs, i - 1)
             EXCEPT ![pairs[i][1].row][pairs[i][1].col] = pairs[i][2]]

\* faulty variant: the stored string, without the placeholder
display_noPlaceholder(name) == name

\* name or "-"
display(name) == IF name = <<>> THEN <<"-">> ELSE name

\* f"{label}: {display}"
Cell(r, c, name) == label(r, c) \o <<":", " ">> \o display(name)

GridLine(r, row) == Join(<<" ", "|", " ">>, [c \in 1..Len(row) |-> Cell(r, c, row[c])])

\* format_grid(assignments, rows, cols)
FormatGridOf(pairs, nr, nc) ==
    LET grid == FillGrid(EmptyGrid(nr, nc), pairs, Len(pairs))
    IN  Join(<<"\n">>, [r \in 1..nr |-> GridLine(r, grid[r])])

---------------------------------------------------------------------------
(* Calls of format_grid on the assignments assign_seats returns. *)

GridNames == {<<"A">>, <<"-">>, <<>>}

GridStudentLists == UNION {[1..n -> GridNames] : n \in 0..MaxStudents}

GridBlockedCandidates == {<<1, 1>>, <<2, 1>>}

InitGrid ==
    /\ pc = "assigned"
    /\ rows \in 1..MaxRows
    /\ cols \in 1..MaxCols
    /\ blocked \in SUBSET GridBlockedCandidates
    /\ seed \in {<<n>> : n \in 0..MaxSeed}
    /\ \E st \in GridStudentLists :
          LET h == [EmptyHeap EXCEPT ![1] = st]
          IN  /\ ~CapacityExceeded(Len(st), Len(available_seats(rows, cols, blocked)))
              /\ heap = HeapAfterAssign(h, 1, 2, rows, cols, blocked, seed[1])
              /\ result = AssignOutcome(h, 1, 2, rows, cols, blocked, seed[1])
    /\ result2 = NotCalled
    /\ text = <<>>
    /\ fileState = "absent"
    /\ rendered = <<>>
    /\ stdout = <<>>
    /\ uncaught = "none"

\* format_grid(assignments, rows, cols)
format_grid ==
    /\ pc = "assigned"
    /\ rendered' = FormatGridOf(result.pairs, rows, cols)
    /\ pc' = "formatted"
    /\ UNCHANGED <<heap, rows, cols, blocked, seed, result, result2, text, fileState, stdout,
                   uncaught>>

NextGrid == format_grid

SpecGrid == InitGrid /\ [][NextGrid]_vars

---------------------------------------------------------------------------
(* Properties of format_grid: the lines and cells read                      *)
(* back from the rendered string.                                          *)

StartsWithAt(str, i, sep) ==
    /\ i + Len(sep) - 1 <= Len(str)
    /\ SubSeq(str, i, i + Len(sep) - 1) = sep

RECURSIVE SplitOnFrom(_, _, _, _)
\* the pieces of `str` between occurrences of `sep`, as str.split(sep) gives them
SplitOnFrom(str, sep, i, cur) ==
    IF i > Len(str) THEN <<cur>>
    ELSE IF StartsWithAt(str, i, sep)
         THEN <<cur>> \o SplitOnFrom(str, sep, i + Len(sep), <<>>)
         ELSE SplitOnFrom(str, sep, i + 1, Append(cur, str[i]))

SplitOn(str, sep) == SplitOnFrom(str, sep, 1, <<>>)

RenderedLines == SplitOn(rendered, <<"\n">>)

RenderedCells(r) == SplitOn(RenderedLines[r], <<" ", "|", " ">>)

Placeholder(r, c) == label(r, c) \o <<":", " ", "-">>

PairsAt(r, c) == {i \in 1..Len(result.pairs) : result.pairs[i][1] = Seat(r, c)}

RowsByColsCells ==
    /\ Len(RenderedLines) = rows
    /\ \A r \in 1..rows : Len(RenderedCells(r)) = cols

CellsNotPlaceholder ==
    {rc \in (1..rows) \X (1..cols) : RenderedCells(rc[1])[rc[2]] # Placeholder(rc[1], rc[2])}

\* C7 as stated: rows lines of cols cells; the cell at (r, c) shows the student
\* of the pair seated there and the placeholder when no pair is seated there;
\* as many cells differ from the placeholder as there are pairs.
C7_CellsShowStudentsOrPlaceholder ==
    pc = "formatted" =>
        /\ RowsByColsCells
        /\ \A r \in 1..rows, c \in 1..cols :
              /\ \A i \in PairsAt(r, c) :
                    RenderedCells(r)[c] = label(r, c) \o <<":", " ">> \o result.pairs[i][2]
              /\ PairsAt(r, c) = {} => RenderedCells(r)[c] = Placeholder(r, c)
        /\ Cardinality(CellsNotPlaceholder) = Len(result.pairs)

\* C7 amended: the cell shows the student when the student is not the empty
\* string, and the placeholder when no pair is seated there or the student
\* seated there is the empty string; as many cells differ from the placeholder
\* as there are pairs whose student is neither empty nor "-".
C7_CellsShowNonEmptyStudentsOrPlaceholder ==
    pc = "formatted" =>
        /\ RowsByColsCells
        /\ \A r \in 1..rows, c \in 1..cols :
              /\ \A i \in PairsAt(r, c) :
                    RenderedCells(r)[c] =
                        IF result.pairs[i][2] = <<>> THEN Placeholder(r, c)
                        ELSE label(r, c) \o <<":", " ">> \o result.pairs[i][2]
              /\ PairsAt(r, c) = {} => RenderedCells(r)[c] = Placeholder(r, c)
        /\ Cardinality(CellsNotPlaceholder) =
              Cardinality({i \in 1..Len(result.pairs) :
                              result.pairs[i][2] \notin {<<>>, <<"-">>}})

C7_Witness ==
    /\ pc = "formatted"
    /\ rows = 2 /\ cols = 2
    /\ blocked = {}
    /\ Len(result.pairs) = 3
    /\ \E i, j, k \in 1..3 :
          /\ result.pairs[i][2] = <<>>
          /\ result.pairs[j][2] = <<"-">>
          /\ result.pairs[k][2] = <<"A">>
    /\ Cardinality(CellsNotPlaceholder) = 1

---------------------------------------------------------------------------
(* main *)

\* rows = 7
MainRows == 7

\* cols = 9
MainCols == 9

\* blocked_seats = []
MainBlocked == {}

\* seed = None
MainSeed == NoSeed

\* the fallback demo list
DemoRoster ==
    << <<"A", "l", "i", "c", "e">>,
       <<"B", "o", "b">>,
       <<"C", "h", "a", "r", "l", "i", "e">>,
       <<"D", "a", "n", "a">>,
       <<"E", "l", "i">>,
       <<"F", "a", "t", "i", "m", "a">>,
       <<"G", "i", "n", "a">>,
       <<"H", "i", "r", "o">>,
       <<"I", "v", "y">>,
       <<"J", "a", "m", "a", "l">>,
       <<"K", "i", "m">>,
       <<"L", "i", "u">> >>

SeatingHeader == <<"S", "e", "a", "t", "i", "n", "g", " ", "a", "s", "s", "i", "g", "n", "m", "e", "n", "t", "s", ":">>

RoomViewHeader == <<"\n", "R", "o", "o", "m", " ", "v", "i", "e", "w", ":">>

\* faulty variant: a file that cannot be read counts as absent
FileExists_andReadable(fs) == fs = "ok"

\* students_file.exists()
FileExists(fs) == fs # "absent"

\* what path.read_text(encoding="utf-8") raises on a file in state fs
ReadError(fs) == IF fs = "denied" THEN "PermissionError" ELSE "UnicodeDecodeError"

\* f"{seat.label()}: {student}"
PairLine(pair) == label(pair[1].row, pair[1].col) \o <<":", " ">> \o pair[2]

\* a students file of n lines "<i> s", i in two digits
RosterText(n) ==
    [k \in 1..(5 * n) |->
        LET i == ((k - 1) \div 5) + 1
        IN  CASE (k - 1) % 5 = 0 -> Digits[(i \div 10) + 1]
              [] (k - 1) % 5 = 1 -> Digits[(i % 10) + 1]
              [] (k - 1) % 5 = 2 -> " "
              [] (k - 1) % 5 = 3 -> "s"
              [] OTHER -> "\n"]

MainTexts ==
    {RosterText(n) : n \in {0, 2, MainRows * MainCols, MainRows * MainCols + 1}}
        \cup {ExampleText, <<"-", "\n", "\n">>}

InitMain ==
    /\ pc = "start"
    /\ fileState \in {"absent", "ok", "denied", "undecodable"}
    /\ text \in (IF fileState = "absent" THEN {<<>>} ELSE MainTexts)
    /\ heap = EmptyHeap
    /\ rows = MainRows
    /\ cols = MainCols
    /\ blocked = MainBlocked
    /\ seed = MainSeed
    /\ result = NotCalled
    /\ result2 = NotCalled
    /\ rendered = <<>>
    /\ stdout = <<>>
    /\ uncaught = "none"

\* if students_file.exists(): students = load_students(students_file)
MainLoadFile ==
    /\ pc = "start"
    /\ FileExists(fileState)
    /\ fileState = "ok"
    /\ heap' = [heap EXCEPT ![1] = LoadStudentsOf(text)]
    /\ pc' = "loaded"
    /\ UNCHANGED <<rows, cols, blocked, seed, result, result2, text, fileState,
                   rendered, stdout, uncaught>>

\* the file exists and read_text raises: nothing catches it
MainLoadFails ==
    /\ pc = "start"
    /\ FileExists(fileState)
    /\ fileState # "ok"
    /\ uncaught' = ReadError(fileState)
    /\ pc' = "crashed"
    /\ UNCHANGED <<heap, rows, cols, blocked, seed, result, result2, text, fileState,
                   rendered, stdout>>

\* else: students = [the demo list]
MainFallback ==
    /\ pc = "start"
    /\ ~FileExists(fileState)
    /\ heap' = [heap EXCEPT ![1] = DemoRoster]
    /\ pc' = "loaded"
    /\ UNCHANGED <<rows, cols, blocked, seed, result, result2, text, fileState,
                   rendered, stdout, uncaught>>

\* faulty variant: the header is printed before assign_seats is called
MainAssign_afterHeader ==
    /\ pc = "loaded"
    /\ \E e \in Entropy :
          LET s == RngSeedOf(seed, e)
              out == AssignOutcome(heap, 1, 2, rows, cols, blocked, s)
          IN  /\ result' = out
              /\ heap' = HeapAfterAssign(heap, 1, 2, rows, cols, blocked, s)
              /\ pc' = IF out.status = "ok" THEN "listing" ELSE "crashed"
              /\ uncaught' = IF out.status = "ok" THEN uncaught ELSE out.status
    /\ stdout' = Append(stdout, SeatingHeader)
    /\ UNCHANGED <<rows, cols, blocked, seed, result2, text, fileState, rendered>>

\* assignments = assign_seats(students, rows, cols, blocked=blocked_seats, seed=seed)
MainAssign ==
    /\ pc = "loaded"
    /\ \E e \in Entropy :
          LET s == RngSeedOf(seed, e)
              out == AssignOutcome(heap, 1, 2, rows, cols, blocked, s)
          IN  /\ result' = out
              /\ heap' = HeapAfterAssign(heap, 1, 2, rows, cols, blocked, s)
              /\ pc' = IF out.status = "ok" THEN "assigned" ELSE "crashed"
              /\ uncaught' = IF out.status = "ok" THEN uncaught ELSE out.status
    /\ UNCHANGED <<rows, cols, blocked, seed, result2, text, fileState, rendered, stdout>>

\* print("Seating assignments:")
MainPrintHeader ==
    /\ pc = "assigned"
    /\ stdout' = Append(stdout, SeatingHeader)
    /\ pc' = "listing"
    /\ UNCHANGED <<heap, rows, cols, blocked, seed, result, result2, text, fileState,
                   rendered, uncaught>>

\* for seat, student in assignments: print(f"{seat.label()}: {student}")
MainPrintPair ==
    /\ pc = "listing"
    /\ Len(stdout) <= Len(result.pairs)
    /\ stdout' = Append(stdout, PairLine(result.pairs[Len(stdout)]))
    /\ UNCHANGED <<pc, heap, rows, cols, blocked, seed, result, result2, text, fileState,
                   rendered, uncaught>>

\* print("\nRoom view:")
MainPrintRoomView ==
    /\ pc = "listing"
    /\ Len(stdout) > Len(result.pairs)
    /\ stdout' = Append(stdout, RoomViewHeader)
    /\ pc' = "room"
    /\ UNCHANGED <<heap, rows, cols, blocked, seed, result, result2, text, fileState,
                   rendered, uncaught>>

\* print(format_grid(assignments, rows, cols))
MainPrintGrid ==
    /\ pc = "room"
    /\ rendered' = FormatGridOf(result.pairs, rows, cols)
    /\ stdout' = Append(stdout, rendered')
    /\ pc' = "done"
    /\ UNCHANGED <<heap, rows, cols, blocked, seed, result, result2, text, fileState,
                   uncaught>>

NextMain ==
    \/ MainLoadFile
    \/ MainLoadFails
    \/ MainFallback
    \/ MainAssign
    \/ MainPrintHeader
    \/ MainPrintPair
    \/ MainPrintRoomView
    \/ MainPrintGrid

SpecMain == InitMain /\ [][NextMain]_vars

---------------------------------------------------------------------------
(* Properties of main. *)

PrintedRoomView == \E i \in 1..Len(stdout) : stdout[i] = RoomViewHeader

\* C8: with more students than available seats the run ends in the capacity
\* error with nothing printed; on success the whole assignment list (header
\* and one line per pair) is printed before the grid section starts, and the
\* grid comes last.
C8_NoOutputOnCapacityErrorListBeforeGrid ==
    /\ (pc # "start" /\ Len(heap[1]) > Cardinality(UnblockedSeats)) =>
          /\ stdout = <<>>
          /\ pc \in {"loaded", "crashed"}
          /\ pc = "crashed" => uncaught = "ValueError"
    /\ PrintedRoomView =>
          /\ result.status = "ok"
          /\ stdout[1] = SeatingHeader
          /\ Len(stdout) >= Len(result.pairs) + 2
          /\ \A i \in 1..Len(result.pairs) :
                stdout[i + 1] = label(result.pairs[i][1].row, result.pairs[i][1].col)
                                    \o <<":", " ">> \o result.pairs[i][2]
          /\ stdout[Len(result.pairs) + 2] = RoomViewHeader
    /\ pc = "done" =>
          /\ Len(stdout) = Len(result.pairs) + 3
          /\ stdout[Len(stdout)] = rendered
          /\ rendered # <<>>

C8_Witness ==
    /\ pc = "crashed"
    /\ uncaught = "ValueError"
    /\ fileState = "ok"
    /\ Len(heap[1]) = Cardinality(UnblockedSeats) + 1
    /\ stdout = <<>>

\* C10: the demo roster is used exactly when the file does not exist; when it
\* exists and reads, the roster is what the loader returns, empty or not; when
\* it exists and cannot be read or decoded, the run ends in that error with no
\* roster, no fallback and no output.
C10_FallbackOnlyWhenFileAbsent ==
    pc # "start" =>
        /\ fileState = "absent" => heap[1] = DemoRoster
        /\ fileState = "ok" => heap[1] = LoadStudentsOf(text)
        /\ fileState \in {"denied", "undecodable"} =>
              /\ pc = "crashed"
              /\ uncaught = (IF fileState = "denied" THEN "PermissionError"
                             ELSE "UnicodeDecodeError")
              /\ heap[1] = <<>>
              /\ result = NotCalled
              /\ stdout = <<>>
        /\ uncaught \in {"PermissionError", "UnicodeDecodeError"} =>
              fileState \in {"denied", "undecodable"}

C10_Witness ==
    /\ pc = "done"
    /\ fileState = "ok"
    /\ text = <<>>
    /\ heap[1] = <<>>
    /\ Len(stdout) = 3

=============================================================================
